---- MODULE Spec2Model ----
(***************************************************************************)
(* process_landsat.py: a queue-driven worker.  process_one leases one SQS  *)
(* message, downloads and unpacks the archive it names, converts every     *)
(* qualifying GeoTIFF, uploads the outputs and then the descriptor to the  *)
(* output bucket, clears the staging directories and deletes the message.  *)
(*                                                                         *)
(* The model keeps the shared queue and output bucket, and for each        *)
(* process instance its two staging directories and the local variables    *)
(* of its current process_one call.  One action per statement group of     *)
(* process_one; a boto3 / cogeo call that can raise has a second branch    *)
(* that ends the call with the exception propagating, which ends the       *)
(* process: the loop of __main__ catches nothing.                          *)
(***************************************************************************)
EXTENDS Integers, Sequences, FiniteSets, TLC

\* ------------------------------------------------------------------------
\* Bounds of the model
\* ------------------------------------------------------------------------
\* number of messages on the queue at the start
MaxMsgs == 3

\* ------------------------------------------------------------------------
\* Program constants
\* ------------------------------------------------------------------------
\* `if len(out_files) >= 7`
MinOutputs == 7

OUT_PATH == "test"

\* the process instances that may run against the shared queue
Procs == {1, 2}

Msgs == 1..MaxMsgs

\* `message = None`
None == 0

\* ------------------------------------------------------------------------
\* The input bucket: the archives a message body can name
\* ------------------------------------------------------------------------
\*   full    : descriptor and MinOutputs qualifying rasters
\*   short   : descriptor and MinOutputs - 1 qualifying rasters
\*   corrupt : tar fails on it
\*   noxml   : unpacks, MinOutputs qualifying rasters, no .xml file
\*   badxml  : unpacks, MinOutputs qualifying rasters, a descriptor that
\*             lacks a required field
Archives == {"full", "short", "corrupt", "noxml", "badxml"}

\* the hard-coded key process_one uses when test=True
TestItem == "full"

\* number of files of archive a that pass
\* fname.endswith('.tif') and ('_sr_' in fname or '_qa' in fname)
NQualifying(a) ==
    CASE a = "short"   -> MinOutputs - 1
      [] a = "corrupt" -> 0
      [] OTHER         -> MinOutputs

Untars(a) == a # "corrupt"

HasXml(a) == a \in {"full", "short", "badxml"}

\* Files of the staging directories
Tar(a) == <<"tar", a, 0>>
Xml(a) == <<"xml", a, 0>>
Tif(a, k) == <<"tif", a, k>>

\* xml_file before get_xmlfile has named one
NoFile == <<"none", "none", 0>>

\* what `tar -xzvf` of archive a leaves in WORKDIR
Members(a) ==
    IF Untars(a)
    THEN {Tif(a, k) : k \in 1..NQualifying(a)} \cup (IF HasXml(a) THEN {Xml(a)} ELSE {})
    ELSE {}

\* whether doc.find('.//satellite'), doc.find('.//acquisition_date') and
\* doc.find('global_metadata').find('wrs') all find their element in
\* descriptor x; get_metadata raises AttributeError when one does not
HasRequiredFields(x) == x[2] # "badxml"

\* get_metadata: the fields of a descriptor that has them all
get_metadata(x) ==
    CASE x[2] = "full"  -> [satellite |-> "LE07", path |-> "021", row |-> "048",
                            datetime |-> <<"2001", "05", "11">>]
      [] x[2] = "short" -> [satellite |-> "LE07", path |-> "211", row |-> "048",
                            datetime |-> <<"1999", "07", "09">>]

\* '{directory}/{satellite}/{path}/{row}/{date}'
out_file_path(metadata) ==
    <<OUT_PATH, metadata.satellite, metadata.path, metadata.row>> \o metadata.datetime

\* basename of a staged file; a converted raster keeps the name of its input
basename(f) == <<IF f[1] = "xml" THEN "xml" ELSE "tif", f[2], f[3]>>

\* "{}/{}".format(out_file_path, basename(file))
Key(prefix, f) == <<prefix, basename(f)>>

\* getfilename: the output path of input raster f under OUTDIR
getfilename(f) == <<"cog", f[2], f[3]>>

\* os.listdir / os.walk order: by archive name, then by index
ArchiveRank(a) ==
    CASE a = "full" -> 1 [] a = "short" -> 2 [] a = "corrupt" -> 3
      [] a = "noxml" -> 4 [] a = "badxml" -> 5

FileRank(f) == ArchiveRank(f[2]) * (MinOutputs + 1) + f[3]

\* the i-th file is the one with i - 1 files ranked below it
SortFiles(S) ==
    [i \in 1..Cardinality(S) |->
        CHOOSE f \in S : Cardinality({g \in S : FileRank(g) < FileRank(f)}) = i - 1]

\* the files os.walk(WORKDIR) yields that qualify for conversion
Qualifying(dir) == SortFiles({f \in dir : f[1] = "tif"})

\* get_xmlfile: the first name containing ".xml" in os.listdir order, which
\* is arbitrary; None when there is none
XmlFiles(dir) == {f \in dir : f[1] = "xml"}

\* ------------------------------------------------------------------------
\* get_items: the keys it lists and the filters it is given
\* ------------------------------------------------------------------------
\* the largest LIMIT get_items is called with
MaxLimit == 3

\* object keys under PATH, and filter arguments; the empty filter stands for
\* None and for '', both false in `if filter and ...`
Keys == {<<"a", "a">>, <<"a", "b">>, <<"b", "a">>, <<"b", "b">>}
Filters == {<< >>, <<"a">>, <<"b">>, <<"a", "b">>}

\* `filter in item`: substring containment
Contains(item, f) ==
    \E i \in 1..(Len(item) - Len(f) + 1) : SubSeq(item, i, i + Len(f) - 1) = f

\* get_matching_s3_keys(BUCKET, PATH): every key once, suffix '' ends them all;
\* the order is that of the listing
get_matching_s3_keys(b) ==
    {s \in [1..Cardinality(b) -> b] : \A i, j \in 1..Cardinality(b) : s[i] = s[j] => i = j}

\* ------------------------------------------------------------------------
\* State
\* ------------------------------------------------------------------------
VARIABLES
    queue,              \* message id -> [body, state]
    store,              \* keys present in OUT_BUCKET
    instances,          \* the running process instances
    WORKDIR,            \* per instance: files in the download directory
    OUTDIR,             \* per instance: files in the transform directory
    pc,                 \* per instance: position in process_one
    overwrite, cleanup, test,          \* per instance: DO_OVERWRITE, DO_CLEANUP, DO_TEST
    message,            \* the message held by the call, or None
    file_to_process,
    process_failed,
    xml_file,
    processed_already,
    walk,               \* files os.walk has still to yield
    out_files,
    next_upload,        \* index in out_files of the upload loop
    error,              \* the step whose exception ended the call
    calls,              \* what the current call has done so far
    main,               \* per instance: position in the loop of __main__
    attributes,         \* per instance: queue.attributes as the resource holds it
    n_messages,         \* per instance: the local of __main__
    bucket,             \* keys of BUCKET under PATH
    items,              \* keys get_matching_s3_keys has still to yield
    LIMIT, filter,      \* the arguments of get_items
    count,              \* the local of get_items
    sent,               \* bodies handed to queue.send_message
    gi                  \* position in get_items

\* the state of __main__ and of get_items, which process_one never touches
outside == <<main, attributes, n_messages, bucket, items, LIMIT, filter, count, sent, gi>>

vars == <<queue, store, instances, WORKDIR, OUTDIR, pc, overwrite, cleanup, test,
          message, file_to_process, process_failed, xml_file, processed_already,
          walk, out_files, next_upload, error, calls, outside>>

\* positions at which no call is running
Ended == {"idle", "noop", "returned", "raised"}

\* positions at which the loop of __main__ calls process_one (again); an
\* exception that leaves process_one is not caught there and ends the process
Ready == {"idle", "noop", "returned"}

NoCalls == [receive |-> 0, download |-> 0, untar |-> 0, check |-> 0, transform |-> 0,
            gate |-> 0, data |-> 0, meta |-> 0, clean |-> 0, delete |-> 0]

Count(p, what) == [calls EXCEPT ![p][what] = @ + 1]

\* MaxMsgs visible messages, each naming an archive; receive_messages may
\* return any of them, so their bodies are listed in one order only
InitQueue ==
    /\ queue \in [Msgs -> [body : Archives, state : {"visible"}]]
    /\ \A m \in Msgs \ {1} : ArchiveRank(queue[m - 1].body) <= ArchiveRank(queue[m].body)
    /\ store = {}

InitProcs ==
    /\ WORKDIR = [p \in Procs |-> {}]
    /\ OUTDIR = [p \in Procs |-> {}]
    /\ pc = [p \in Procs |-> "idle"]
    /\ message = [p \in Procs |-> None]
    /\ file_to_process = [p \in Procs |-> "none"]
    /\ process_failed = [p \in Procs |-> FALSE]
    /\ xml_file = [p \in Procs |-> NoFile]
    /\ processed_already = [p \in Procs |-> FALSE]
    /\ walk = [p \in Procs |-> << >>]
    /\ out_files = [p \in Procs |-> << >>]
    /\ next_upload = [p \in Procs |-> 1]
    /\ error = [p \in Procs |-> "none"]
    /\ calls = [p \in Procs |-> NoCalls]

\* __main__ has not read the queue's attributes yet
InitMain ==
    /\ main = [p \in Procs |-> "start"]
    /\ attributes = [p \in Procs |-> << >>]
    /\ n_messages = [p \in Procs |-> 0]

\* get_items is not running
NoGetItems ==
    /\ bucket = {}
    /\ items = << >>
    /\ LIMIT = 0
    /\ filter = << >>
    /\ count = 0
    /\ sent = << >>
    /\ gi = "idle"

\* one worker process, started with any setting of its three flags
Init ==
    /\ InitQueue
    /\ InitProcs
    /\ InitMain
    /\ NoGetItems
    /\ instances = {1}
    /\ \E ow, cl, t \in BOOLEAN :
        /\ overwrite = [p \in Procs |-> ow]
        /\ cleanup = [p \in Procs |-> cl]
        /\ test = [p \in Procs |-> t]

\* ------------------------------------------------------------------------
\* process_one
\* ------------------------------------------------------------------------
Visible == {m \in Msgs : queue[m].state = "visible"}

\* a mutant: the exception is caught and the call goes on to its last step
RaiseSwallowed(p, step) ==
    /\ pc' = [pc EXCEPT ![p] = "delete"]
    /\ error' = [error EXCEPT ![p] = step]

\* an exception leaves process_one
Raise(p, step) ==
    /\ pc' = [pc EXCEPT ![p] = "raised"]
    /\ error' = [error EXCEPT ![p] = step]

\* the locals of a fresh call that works on archive a holding message m
Begin(p, m, a, at) ==
    /\ message' = [message EXCEPT ![p] = m]
    /\ file_to_process' = [file_to_process EXCEPT ![p] = a]
    /\ process_failed' = [process_failed EXCEPT ![p] = FALSE]
    /\ xml_file' = [xml_file EXCEPT ![p] = NoFile]
    /\ processed_already' = [processed_already EXCEPT ![p] = FALSE]
    /\ walk' = [walk EXCEPT ![p] = << >>]
    /\ out_files' = [out_files EXCEPT ![p] = << >>]
    /\ next_upload' = [next_upload EXCEPT ![p] = 1]
    /\ error' = [error EXCEPT ![p] = "none"]
    /\ calls' = [calls EXCEPT ![p] = [NoCalls EXCEPT !.receive = 1]]
    /\ pc' = [pc EXCEPT ![p] = at]

\* a mutant: the call goes on with the test key although test is False
NoMessagesGoOn(p) == Begin(p, None, TestItem, "download")

\* the else branch of `if len(messages) > 0 and not test`, when no message
\* was received: the test key if test, else return
NoMessages(p) ==
    IF test[p]
    THEN Begin(p, None, TestItem, "download")
    ELSE Begin(p, None, "none", "noop")

\* queue.receive_messages(VisibilityTimeout=1000, MaxNumberOfMessages=1) and
\* the choice of the file to process
Receive(p) ==
    /\ p \in instances
    /\ pc[p] \in Ready
    /\ \/ \E m \in Visible :
            /\ queue' = [queue EXCEPT ![m].state = "inflight"]
            /\ IF ~test[p]
               THEN Begin(p, m, queue[m].body, "download")
               ELSE Begin(p, None, TestItem, "download")
       \/ /\ Visible = {}
          /\ UNCHANGED queue
          /\ NoMessages(p)
    /\ UNCHANGED <<store, instances, outside, WORKDIR, OUTDIR, overwrite, cleanup, test>>

\* s3r.Bucket(BUCKET).download_file unless the archive is already staged
Download(p) ==
    /\ pc[p] = "download"
    /\ IF Tar(file_to_process[p]) \in WORKDIR[p]
       THEN /\ pc' = [pc EXCEPT ![p] = "untar"]
            /\ UNCHANGED <<WORKDIR, error, calls>>
       ELSE /\ calls' = Count(p, "download")
            /\ \/ /\ WORKDIR' = [WORKDIR EXCEPT ![p] = @ \cup {Tar(file_to_process[p])}]
                  /\ pc' = [pc EXCEPT ![p] = "untar"]
                  /\ UNCHANGED error
               \/ /\ Raise(p, "download_file")
                  /\ UNCHANGED WORKDIR
    /\ UNCHANGED <<queue, store, instances, outside, OUTDIR, overwrite, cleanup, test, message,
                   file_to_process, process_failed, xml_file, processed_already, walk,
                   out_files, next_upload>>

\* a mutant: the RuntimeError of run_command is not caught
UntarUncaught(p) ==
    /\ pc[p] = "untar"
    /\ calls' = Count(p, "untar")
    /\ IF Untars(file_to_process[p])
       THEN /\ WORKDIR' = [WORKDIR EXCEPT ![p] = @ \cup Members(file_to_process[p])]
            /\ pc' = [pc EXCEPT ![p] = "metadata"]
            /\ UNCHANGED error
       ELSE /\ Raise(p, "run_command")
            /\ UNCHANGED WORKDIR
    /\ UNCHANGED <<queue, store, instances, outside, OUTDIR, overwrite, cleanup, test, message,
                   file_to_process, process_failed, xml_file, processed_already, walk,
                   out_files, next_upload>>

\* run_command(['tar', '-xzvf', local_file], WORKDIR), RuntimeError caught
Untar(p) ==
    /\ pc[p] = "untar"
    /\ calls' = Count(p, "untar")
    /\ IF Untars(file_to_process[p])
       THEN /\ WORKDIR' = [WORKDIR EXCEPT ![p] = @ \cup Members(file_to_process[p])]
            /\ pc' = [pc EXCEPT ![p] = "metadata"]
            /\ UNCHANGED process_failed
       ELSE /\ process_failed' = [process_failed EXCEPT ![p] = TRUE]
            /\ pc' = [pc EXCEPT ![p] = "cleanup"]
            /\ UNCHANGED WORKDIR
    /\ UNCHANGED <<queue, store, instances, outside, OUTDIR, overwrite, cleanup, test, message,
                   file_to_process, xml_file, processed_already, walk, out_files,
                   next_upload, error>>

\* xml_file = os.path.join(WORKDIR, get_xmlfile(WORKDIR)); get_metadata(xml_file)
Metadata(p) ==
    /\ pc[p] = "metadata"
    /\ IF XmlFiles(WORKDIR[p]) = {}
       THEN /\ Raise(p, "get_xmlfile")
            /\ UNCHANGED xml_file
       ELSE \E x \in XmlFiles(WORKDIR[p]) :
                /\ xml_file' = [xml_file EXCEPT ![p] = x]
                /\ IF HasRequiredFields(x)
                   THEN /\ pc' = [pc EXCEPT ![p] = "check"]
                        /\ UNCHANGED error
                   ELSE Raise(p, "get_metadata")
    /\ UNCHANGED <<queue, store, instances, outside, WORKDIR, OUTDIR, overwrite, cleanup, test,
                   message, file_to_process, process_failed, processed_already, walk,
                   out_files, next_upload, calls>>

prefix(p) == out_file_path(get_metadata(xml_file[p]))
xml_key(p) == Key(prefix(p), xml_file[p])

\* a mutant: every ClientError is taken for a 404
check_processed_absent(key, found, raised) ==
    /\ ~found
    /\ ~raised

\* a mutant: any ClientError, whatever its code, is answered False
check_processed_lenient(key, found, raised) ==
    /\ ~raised
    /\ found => key \in store

\* check_processed: True when the key exists, False on a 404, any other
\* ClientError re-raised
check_processed(key, found, raised) ==
    \/ /\ key \in store
       /\ found
       /\ ~raised
    \/ /\ key \notin store
       /\ ~found
       /\ ~raised
    \/ raised

\* a mutant: the gate forgets the overwrite flag
ShouldProcessUnseen(ow, found) == ~found

\* a mutant: the answer of check_processed is not consulted
ShouldProcessAlways(ow, found) == TRUE

\* `if overwrite or not processed_already`
ShouldProcess(ow, found) == ow \/ ~found

\* processed_already = check_processed(xml_key) and the gate
Check(p) ==
    /\ pc[p] = "check"
    /\ calls' = Count(p, "check")
    /\ \E found, raised \in BOOLEAN :
        /\ check_processed(xml_key(p), found, raised)
        /\ IF raised
           THEN /\ Raise(p, "check_processed")
                /\ UNCHANGED <<processed_already, walk>>
           ELSE /\ processed_already' = [processed_already EXCEPT ![p] = found]
                /\ IF ShouldProcess(overwrite[p], found)
                   THEN /\ walk' = [walk EXCEPT ![p] = Qualifying(WORKDIR[p])]
                        /\ pc' = [pc EXCEPT ![p] = "transform"]
                   ELSE /\ pc' = [pc EXCEPT ![p] = "cleanup"]
                        /\ UNCHANGED walk
                /\ UNCHANGED error
    /\ UNCHANGED <<queue, store, instances, outside, WORKDIR, OUTDIR, overwrite, cleanup, test,
                   message, file_to_process, process_failed, xml_file, out_files,
                   next_upload>>

\* a mutant: each output is uploaded as soon as it has been converted
TransformAndUpload(p) ==
    /\ pc[p] = "transform"
    /\ walk[p] # << >>
    /\ out_files' = [out_files EXCEPT ![p] = Append(@, getfilename(Head(walk[p])))]
    /\ \/ /\ OUTDIR' = [OUTDIR EXCEPT ![p] = @ \cup {getfilename(Head(walk[p]))}]
          /\ walk' = [walk EXCEPT ![p] = Tail(@)]
          /\ store' = store \cup {Key(out_file_path(get_metadata(xml_file[p])),
                                      getfilename(Head(walk[p])))}
          /\ calls' = [calls EXCEPT ![p].transform = @ + 1, ![p].data = @ + 1]
          /\ UNCHANGED <<pc, error>>
       \/ /\ Raise(p, "cog_translate")
          /\ calls' = Count(p, "transform")
          /\ UNCHANGED <<OUTDIR, walk, store>>
    /\ UNCHANGED <<queue, instances, outside, WORKDIR, overwrite, cleanup, test, message,
                   file_to_process, process_failed, xml_file, processed_already,
                   next_upload>>

\* one iteration of the os.walk loop: out_files.append, then cog_translate
Transform(p) ==
    /\ pc[p] = "transform"
    /\ walk[p] # << >>
    /\ out_files' = [out_files EXCEPT ![p] = Append(@, getfilename(Head(walk[p])))]
    /\ calls' = Count(p, "transform")
    /\ \/ /\ OUTDIR' = [OUTDIR EXCEPT ![p] = @ \cup {getfilename(Head(walk[p]))}]
          /\ walk' = [walk EXCEPT ![p] = Tail(@)]
          /\ UNCHANGED <<pc, error>>
       \/ /\ Raise(p, "cog_translate")
          /\ UNCHANGED <<OUTDIR, walk>>
    /\ UNCHANGED <<queue, store, instances, outside, WORKDIR, overwrite, cleanup, test, message,
                   file_to_process, process_failed, xml_file, processed_already,
                   next_upload>>

\* a mutant: the threshold is exclusive
EnoughOutputsStrict(n) == n > MinOutputs

\* `len(out_files) >= 7`
EnoughOutputs(n) == n >= MinOutputs

\* a mutant: too few outputs are logged but the call is not marked failed
ValidateUnmarked(p) ==
    /\ pc[p] = "transform"
    /\ walk[p] = << >>
    /\ pc' = [pc EXCEPT ![p] = IF EnoughOutputs(Len(out_files[p])) THEN "upload"
                                                                   ELSE "cleanup"]
    /\ calls' = Count(p, "gate")
    /\ UNCHANGED <<queue, store, instances, outside, WORKDIR, OUTDIR, overwrite, cleanup, test,
                   message, file_to_process, process_failed, xml_file,
                   processed_already, walk, out_files, next_upload, error>>

\* `if len(out_files) >= 7` ... else process_failed = True
Validate(p) ==
    /\ pc[p] = "transform"
    /\ walk[p] = << >>
    /\ IF EnoughOutputs(Len(out_files[p]))
       THEN /\ pc' = [pc EXCEPT ![p] = "upload"]
            /\ UNCHANGED process_failed
       ELSE /\ process_failed' = [process_failed EXCEPT ![p] = TRUE]
            /\ pc' = [pc EXCEPT ![p] = "cleanup"]
    /\ calls' = Count(p, "gate")
    /\ UNCHANGED <<queue, store, instances, outside, WORKDIR, OUTDIR, overwrite, cleanup, test,
                   message, file_to_process, xml_file, processed_already, walk,
                   out_files, next_upload, error>>

\* s3r.Bucket(OUT_BUCKET).put_object(Key=key, Body=data)
put_object(key) == store' = store \cup {key}

\* a mutant: an upload that fails is passed over and the loop goes on
UploadDataSkipFailed(p) ==
    /\ pc[p] = "upload"
    /\ next_upload[p] <= Len(out_files[p])
    /\ calls' = Count(p, "data")
    /\ \/ store' = store \cup {Key(out_file_path(get_metadata(xml_file[p])),
                                   out_files[p][next_upload[p]])}
       \/ UNCHANGED store
    /\ next_upload' = [next_upload EXCEPT ![p] = @ + 1]
    /\ UNCHANGED <<queue, instances, outside, WORKDIR, OUTDIR, overwrite, cleanup, test, message,
                   file_to_process, process_failed, xml_file, processed_already, walk,
                   out_files, pc, error>>

\* one iteration of `for out_file in out_files`
UploadData(p) ==
    /\ pc[p] = "upload"
    /\ next_upload[p] <= Len(out_files[p])
    /\ calls' = Count(p, "data")
    /\ \/ /\ put_object(Key(prefix(p), out_files[p][next_upload[p]]))
          /\ next_upload' = [next_upload EXCEPT ![p] = @ + 1]
          /\ UNCHANGED <<pc, error>>
       \/ /\ Raise(p, "put_object")
          /\ UNCHANGED <<store, next_upload>>
    /\ UNCHANGED <<queue, instances, outside, WORKDIR, OUTDIR, overwrite, cleanup, test, message,
                   file_to_process, process_failed, xml_file, processed_already, walk,
                   out_files>>

\* a mutant: the descriptor is uploaded without waiting for the loop
UploadMetaEarly(p) ==
    /\ pc[p] = "upload"
    /\ calls' = Count(p, "meta")
    /\ put_object(xml_key(p))
    /\ pc' = [pc EXCEPT ![p] = "cleanup"]
    /\ UNCHANGED <<queue, instances, outside, WORKDIR, OUTDIR, overwrite, cleanup, test, message,
                   file_to_process, process_failed, xml_file, processed_already, walk,
                   out_files, next_upload, error>>

\* the descriptor, after the loop
UploadMeta(p) ==
    /\ pc[p] = "upload"
    /\ next_upload[p] > Len(out_files[p])
    /\ calls' = Count(p, "meta")
    /\ \/ /\ put_object(xml_key(p))
          /\ pc' = [pc EXCEPT ![p] = "cleanup"]
          /\ UNCHANGED error
       \/ /\ Raise(p, "put_object")
          /\ UNCHANGED store
    /\ UNCHANGED <<queue, instances, outside, WORKDIR, OUTDIR, overwrite, cleanup, test, message,
                   file_to_process, process_failed, xml_file, processed_already, walk,
                   out_files, next_upload>>

\* a mutant: the directories are cleared only after a call that did not fail
CleanupOnSuccessOnly(p) ==
    /\ pc[p] = "cleanup"
    /\ IF cleanup[p] /\ ~process_failed[p]
       THEN /\ WORKDIR' = [WORKDIR EXCEPT ![p] = {}]
            /\ OUTDIR' = [OUTDIR EXCEPT ![p] = {}]
            /\ calls' = Count(p, "clean")
       ELSE UNCHANGED <<WORKDIR, OUTDIR, calls>>
    /\ pc' = [pc EXCEPT ![p] = "delete"]
    /\ UNCHANGED <<queue, store, instances, outside, overwrite, cleanup, test, message,
                   file_to_process, process_failed, xml_file, processed_already, walk,
                   out_files, next_upload, error>>

\* delete_files: everything below the directory
delete_files(dir) == {}

\* `if cleanup: delete_files(WORKDIR); delete_files(OUTDIR)`
Cleanup(p) ==
    /\ pc[p] = "cleanup"
    /\ IF cleanup[p]
       THEN /\ WORKDIR' = [WORKDIR EXCEPT ![p] = delete_files(@)]
            /\ OUTDIR' = [OUTDIR EXCEPT ![p] = delete_files(@)]
            /\ calls' = Count(p, "clean")
       ELSE UNCHANGED <<WORKDIR, OUTDIR, calls>>
    /\ pc' = [pc EXCEPT ![p] = "delete"]
    /\ UNCHANGED <<queue, store, instances, outside, overwrite, cleanup, test, message,
                   file_to_process, process_failed, xml_file, processed_already, walk,
                   out_files, next_upload, error>>

\* a mutant: the message is deleted only if the call is not marked failed
DeleteUnlessFailed(p) ==
    /\ pc[p] = "delete"
    /\ IF message[p] = None
       THEN /\ Raise(p, "message.delete")
            /\ UNCHANGED <<queue, calls>>
       ELSE /\ IF process_failed[p]
               THEN UNCHANGED <<queue, calls>>
               ELSE /\ queue' = [queue EXCEPT ![message[p]].state = "deleted"]
                    /\ calls' = Count(p, "delete")
            /\ pc' = [pc EXCEPT ![p] = "returned"]
            /\ UNCHANGED error
    /\ UNCHANGED <<store, instances, outside, WORKDIR, OUTDIR, overwrite, cleanup, test, message,
                   file_to_process, process_failed, xml_file, processed_already, walk,
                   out_files, next_upload>>

\* message.delete(); AttributeError when message is None
Delete(p) ==
    /\ pc[p] = "delete"
    /\ IF message[p] = None
       THEN /\ Raise(p, "message.delete")
            /\ UNCHANGED <<queue, calls>>
       ELSE /\ queue' = [queue EXCEPT ![message[p]].state = "deleted"]
            /\ calls' = Count(p, "delete")
            /\ pc' = [pc EXCEPT ![p] = "returned"]
            /\ UNCHANGED error
    /\ UNCHANGED <<store, instances, outside, WORKDIR, OUTDIR, overwrite, cleanup, test, message,
                   file_to_process, process_failed, xml_file, processed_already, walk,
                   out_files, next_upload>>

\* ------------------------------------------------------------------------
\* The queue: the lease of VisibilityTimeout=1000 runs out
\* ------------------------------------------------------------------------
Expire(m) ==
    /\ queue[m].state = "inflight"
    /\ queue' = [queue EXCEPT ![m].state = "visible"]
    /\ UNCHANGED <<store, instances, outside, WORKDIR, OUTDIR, pc, overwrite, cleanup, test,
                   message, file_to_process, process_failed, xml_file,
                   processed_already, walk, out_files, next_upload, error,
                   calls>>

Step(p) ==
    \/ Receive(p)
    \/ Download(p)
    \/ Untar(p)
    \/ Metadata(p)
    \/ Check(p)
    \/ Transform(p)
    \/ Validate(p)
    \/ UploadData(p)
    \/ UploadMeta(p)
    \/ Cleanup(p)
    \/ Delete(p)

Next ==
    \/ \E p \in Procs : Step(p)
    \/ \E m \in Msgs : Expire(m)

Spec == Init /\ [][Next]_vars

\* ------------------------------------------------------------------------
\* Several instances of the program on one queue and one bucket
\* ------------------------------------------------------------------------
\* two worker processes started with DO_OVERWRITE off; every message names
\* the same scene, as after the scene was enqueued more than once
InitShared ==
    /\ queue = [m \in Msgs |-> [body |-> "full", state |-> "visible"]]
    /\ store = {}
    /\ InitProcs
    /\ InitMain
    /\ NoGetItems
    /\ instances = Procs
    /\ overwrite = [p \in Procs |-> FALSE]
    /\ test = [p \in Procs |-> FALSE]
    /\ \E cl \in BOOLEAN : cleanup = [p \in Procs |-> cl]

SpecShared == InitShared /\ [][Next]_vars

\* ------------------------------------------------------------------------
\* __main__: process_one for as long as count_messages() is positive
\* ------------------------------------------------------------------------
\* count_messages: queue.attributes["ApproximateNumberOfMessages"].  The
\* attributes of the boto3 Queue resource are fetched on their first use and
\* kept in the resource; the program never calls queue.load() or
\* queue.reload(), so every later call reads the number fetched first
count_messages(p) ==
    /\ attributes' = [attributes EXCEPT
                        ![p] = IF @ = << >> THEN <<Cardinality(Visible)>> ELSE @]
    /\ n_messages' = [n_messages EXCEPT ![p] = attributes'[p][1]]

\* `n_messages = count_messages()`, before the loop and at the end of its body
MainCount(p) ==
    /\ p \in instances
    /\ \/ main[p] = "start"
       \/ main[p] = "call" /\ pc[p] \in {"noop", "returned"}
    /\ count_messages(p)
    /\ main' = [main EXCEPT ![p] = "while"]
    /\ UNCHANGED <<queue, store, instances, WORKDIR, OUTDIR, pc, overwrite, cleanup, test,
                   message, file_to_process, process_failed, xml_file,
                   processed_already, walk, out_files, next_upload, error, calls,
                   bucket, items, LIMIT, filter, count, sent, gi>>

\* `while n_messages > 0:`
MainWhile(p) ==
    /\ main[p] = "while"
    /\ IF n_messages[p] > 0
       THEN /\ main' = [main EXCEPT ![p] = "call"]
            /\ pc' = [pc EXCEPT ![p] = "idle"]
       ELSE /\ main' = [main EXCEPT ![p] = "exit"]
            /\ UNCHANGED pc
    /\ UNCHANGED <<queue, store, instances, WORKDIR, OUTDIR, overwrite, cleanup, test,
                   message, file_to_process, process_failed, xml_file,
                   processed_already, walk, out_files, next_upload, error, calls,
                   attributes, n_messages, bucket, items, LIMIT, filter, count, sent,
                   gi>>

\* `process_one(test=DO_TEST, overwrite=DO_OVERWRITE, cleanup=DO_CLEANUP)`
MainCall(p) ==
    /\ main[p] = "call"
    /\ pc[p] = "idle"
    /\ Receive(p)

MainStep(p) ==
    \/ MainCount(p)
    \/ MainWhile(p)
    \/ MainCall(p)
    \/ Download(p)
    \/ Untar(p)
    \/ Metadata(p)
    \/ Check(p)
    \/ Transform(p)
    \/ Validate(p)
    \/ UploadData(p)
    \/ UploadMeta(p)
    \/ Cleanup(p)
    \/ Delete(p)

NextMain ==
    \/ \E p \in Procs : MainStep(p)
    \/ \E m \in Msgs : Expire(m)

\* the program as it is started: DO_TEST is False, DO_OVERWRITE and
\* DO_CLEANUP come from the environment; the queue is filled or empty
InitProgram ==
    /\ \/ InitQueue
       \/ /\ queue = [m \in Msgs |-> [body |-> "full", state |-> "deleted"]]
          /\ store = {}
    /\ InitProcs
    /\ InitMain
    /\ NoGetItems
    /\ instances = {1}
    /\ test = [p \in Procs |-> FALSE]
    /\ \E ow, cl \in BOOLEAN :
        /\ overwrite = [p \in Procs |-> ow]
        /\ cleanup = [p \in Procs |-> cl]

\* what every step of the program changes: its position
position == <<main, pc, walk, next_upload>>

\* the process runs on for as long as it has a step to take
SpecMain ==
    InitProgram /\ [][NextMain]_vars /\ WF_position(\E p \in Procs : MainStep(p))

\* ------------------------------------------------------------------------
\* get_items
\* ------------------------------------------------------------------------
\* `count = 0` and the first request of the generator: list_objects_v2 of a
\* prefix without keys answers without 'Contents' and resp['Contents'] raises
get_items_call ==
    /\ gi = "call"
    /\ count' = 0
    /\ IF bucket = {}
       THEN /\ gi' = "raised"
            /\ UNCHANGED items
       ELSE /\ items' \in get_matching_s3_keys(bucket)
            /\ gi' = "loop"
    /\ UNCHANGED <<queue, store, instances, WORKDIR, OUTDIR, pc, overwrite, cleanup, test,
                   message, file_to_process, process_failed, xml_file,
                   processed_already, walk, out_files, next_upload, error, calls,
                   main, attributes, n_messages, bucket, LIMIT, filter, sent>>

\* one iteration of `for item in items`
get_items_loop ==
    /\ gi = "loop"
    /\ items # << >>
    /\ IF filter # << >> /\ Contains(Head(items), filter)
       THEN /\ count' = count + 1
            /\ IF count' >= LIMIT
               THEN /\ gi' = "done"
                    /\ UNCHANGED <<items, sent>>
               ELSE /\ sent' = Append(sent, Head(items))
                    /\ items' = Tail(items)
                    /\ UNCHANGED gi
       ELSE /\ items' = Tail(items)
            /\ UNCHANGED <<count, sent, gi>>
    /\ UNCHANGED <<queue, store, instances, WORKDIR, OUTDIR, pc, overwrite, cleanup, test,
                   message, file_to_process, process_failed, xml_file,
                   processed_already, walk, out_files, next_upload, error, calls,
                   main, attributes, n_messages, bucket, LIMIT, filter>>

\* the generator is exhausted
get_items_end ==
    /\ gi = "loop"
    /\ items = << >>
    /\ gi' = "done"
    /\ UNCHANGED <<queue, store, instances, WORKDIR, OUTDIR, pc, overwrite, cleanup, test,
                   message, file_to_process, process_failed, xml_file,
                   processed_already, walk, out_files, next_upload, error, calls,
                   main, attributes, n_messages, bucket, items, LIMIT, filter, count,
                   sent>>

get_items ==
    \/ get_items_call
    \/ get_items_loop
    \/ get_items_end

\* a call of get_items with any arguments on any listing, no worker running
InitGetItems ==
    /\ queue = [m \in Msgs |-> [body |-> "full", state |-> "deleted"]]
    /\ store = {}
    /\ InitProcs
    /\ InitMain
    /\ instances = {}
    /\ overwrite = [p \in Procs |-> FALSE]
    /\ cleanup = [p \in Procs |-> FALSE]
    /\ test = [p \in Procs |-> FALSE]
    /\ bucket \in SUBSET Keys
    /\ LIMIT \in 0..MaxLimit
    /\ filter \in Filters
    /\ items = << >>
    /\ count = 0
    /\ sent = << >>
    /\ gi = "call"

SpecGetItems == InitGetItems /\ [][get_items]_vars

\* SQS ends every lease when its visibility timeout has run
SpecLease == Spec /\ \A m \in Msgs : WF_vars(Expire(m))

\* ------------------------------------------------------------------------
\* Properties
\* ------------------------------------------------------------------------
\* every output of the call is in the bucket under the call's prefix
Uploaded(p) ==
    \A i \in 1..Len(out_files[p]) : Key(prefix(p), out_files[p][i]) \in store

\* the call is past its publish step (line 293 onwards)
PastPublish(p) ==
    \/ pc[p] \in {"cleanup", "delete", "returned"}
    \/ pc[p] = "raised" /\ error[p] = "message.delete"

\* C1: in a call that uploads the descriptor, every data output of the call
\* has been uploaded before the descriptor's upload starts, and none is
\* uploaded after it.
MetadataLast ==
    \A p \in Procs :
        calls[p].meta > 0 =>
            /\ calls[p].data = Len(out_files[p])
            /\ Uploaded(p)

\* a call has published a full set of outputs and then the descriptor
MetadataLastWitness ==
    \E p \in Procs :
        /\ pc[p] = "returned"
        /\ calls[p].meta = 1
        /\ calls[p].data >= MinOutputs
        /\ xml_key(p) \in store

Skips(p) == ~overwrite[p] /\ processed_already[p]

\* the call has got an answer from check_processed
Checked(p) == calls[p].check = 1 /\ error[p] # "check_processed"

\* C3: with overwrite=false a call whose descriptor key is already in the
\* bucket (a first run published it) is answered "processed already",
\* converts nothing, uploads nothing, is not marked failed and leaves the
\* bucket as it found it.
IdempotentSkip ==
    /\ [](\A p \in Procs :
            /\ Checked(p) /\ xml_key(p) \notin store => ~processed_already[p]
            /\ Checked(p) /\ calls[p].meta = 0 /\ xml_key(p) \in store
                  => processed_already[p]
            /\ Skips(p) =>
                  /\ calls[p].transform = 0
                  /\ calls[p].gate = 0
                  /\ calls[p].data = 0
                  /\ calls[p].meta = 0
                  /\ ~process_failed[p]
                  /\ PastPublish(p))
    /\ [][\A p \in Procs : Skips(p) /\ pc[p] \notin Ended => store' = store]_vars

\* the archive "full" is processed a second time and skipped
IdempotentSkipWitness ==
    \E p \in Procs :
        /\ pc[p] = "returned"
        /\ Skips(p)
        /\ file_to_process[p] = "full"
        /\ xml_file[p] = Xml("full")
        /\ \A k \in 1..NQualifying("full") : Key(prefix(p), Tif("full", k)) \in store

\* the call found the descriptor's key in the bucket and may overwrite
Republishes(p) == overwrite[p] /\ processed_already[p]

\* C4: with overwrite=true a call whose descriptor key is already in the
\* bucket converts every qualifying file again and, given 7 outputs or more,
\* uploads every output and then the descriptor again, unmarked; the only
\* exceptions on its way are those of cog_translate and put_object (and of
\* message.delete when the call holds no message).
OverwriteRepublishes ==
    \A p \in Procs :
        Republishes(p) =>
            /\ pc[p] = "upload" =>
                  /\ calls[p].gate = 1
                  /\ calls[p].transform = Cardinality({f \in WORKDIR[p] : f[1] = "tif"})
                  /\ Len(out_files[p]) = calls[p].transform
            /\ PastPublish(p) =>
                  /\ calls[p].gate = 1
                  /\ calls[p].transform = Len(out_files[p])
                  /\ Len(out_files[p]) >= MinOutputs =>
                        /\ calls[p].data = Len(out_files[p])
                        /\ calls[p].meta = 1
                        /\ Uploaded(p)
                        /\ ~process_failed[p]
            /\ pc[p] = "raised" =>
                  \/ error[p] \in {"cog_translate", "put_object"}
                  \/ error[p] = "message.delete" /\ message[p] = None

\* a set of outputs that was in the bucket has been published again
OverwriteRepublishesWitness ==
    \E p \in Procs :
        /\ pc[p] = "returned"
        /\ Republishes(p)
        /\ calls[p].transform >= MinOutputs
        /\ calls[p].data = calls[p].transform
        /\ calls[p].meta = 1

\* C5: a call that receives no message and has test=False returns at once:
\* it has downloaded, checked, converted, uploaded, cleaned and deleted
\* nothing, and the bucket, the queue and both directories are as before.
EmptyQueueNoOp ==
    /\ [](\A p \in Procs :
            pc[p] = "noop" =>
                /\ calls[p] = [NoCalls EXCEPT !.receive = 1]
                /\ message[p] = None
                /\ error[p] = "none")
    /\ [][\A p \in Procs :
            pc[p] \in Ended /\ pc'[p] # pc[p] /\ Visible = {} /\ ~test[p] =>
                /\ pc'[p] = "noop"
                /\ UNCHANGED <<queue, store, WORKDIR, OUTDIR>>]_vars

\* a call has returned from an empty queue
EmptyQueueNoOpWitness ==
    \E p \in Procs :
        /\ pc[p] = "noop"
        /\ \A m \in Msgs : queue[m].state = "deleted"
        /\ store # {}

\* tar has failed on the call's archive
UnpackFailed(p) == calls[p].untar = 1 /\ ~Untars(file_to_process[p])

\* C6: when tar fails the call is marked failed; it looks for no
\* descriptor, checks nothing, converts and uploads nothing; it clears the
\* directories if cleanup is set and deletes the message it holds.
UnpackFailureIsSoft ==
    \A p \in Procs :
        UnpackFailed(p) =>
            /\ process_failed[p]
            /\ xml_file[p] = NoFile
            /\ calls[p].check = 0
            /\ calls[p].transform = 0
            /\ calls[p].gate = 0
            /\ calls[p].data = 0
            /\ calls[p].meta = 0
            /\ PastPublish(p)
            /\ pc[p] \in {"delete", "returned"} =>
                  /\ calls[p].clean = IF cleanup[p] THEN 1 ELSE 0
                  /\ cleanup[p] => WORKDIR[p] = {} /\ OUTDIR[p] = {}
            /\ message[p] # None =>
                  /\ pc[p] # "raised"
                  /\ pc[p] = "returned" =>
                        /\ calls[p].delete = 1
                        /\ queue[message[p]].state = "deleted"

\* a call on the corrupt archive has cleaned up and deleted its message
UnpackFailureIsSoftWitness ==
    \E p \in Procs :
        /\ UnpackFailed(p)
        /\ pc[p] = "returned"
        /\ cleanup[p]
        /\ WORKDIR[p] = {}
        /\ queue[message[p]].state = "deleted"

\* the call uploaded the descriptor and went on
Succeeded(p) == calls[p].meta = 1 /\ PastPublish(p)

\* C7: a call that holds a message and ends in success, in a skip or in a
\* soft failure deletes that message, once, as its last step, and raises
\* nothing.
UnconditionalAck ==
    \A p \in Procs :
        message[p] # None =>
            /\ calls[p].delete <= 1
            /\ calls[p].delete = 1 <=> pc[p] = "returned"
            /\ pc[p] = "returned" => queue[message[p]].state = "deleted"
            /\ Succeeded(p) \/ Skips(p) \/ process_failed[p]
                  => pc[p] \in {"cleanup", "delete", "returned"}
            /\ pc[p] = "raised" => error[p] # "message.delete"

\* a call marked failed by the threshold has deleted its message
UnconditionalAckWitness ==
    \E p \in Procs :
        /\ message[p] # None
        /\ pc[p] = "returned"
        /\ process_failed[p]
        /\ calls[p].gate = 1
        /\ queue[message[p]].state = "deleted"

\* the descriptor and every qualifying raster of archive a are in the bucket
\* under the prefix of a's descriptor
Published(a) ==
    /\ Untars(a)
    /\ HasXml(a)
    /\ HasRequiredFields(Xml(a))
    /\ Key(out_file_path(get_metadata(Xml(a))), Xml(a)) \in store
    /\ \A k \in 1..NQualifying(a) :
          Key(out_file_path(get_metadata(Xml(a))), Tif(a, k)) \in store

\* C8 as stated: a message is deleted only if its item's outputs and
\* descriptor are in the bucket.
DeletedOnlyOnSuccess ==
    \A m \in Msgs : queue[m].state = "deleted" => Published(queue[m].body)

\* C8 as amended: a call that has deleted its message was marked failed
\* (tar failed, or fewer than 7 outputs), or found its descriptor key in the
\* bucket and skipped, or uploaded every output it produced and then its
\* descriptor.
DeletedAfterCompletion ==
    \A p \in Procs :
        calls[p].delete = 1 =>
            \/ process_failed[p]
            \/ Skips(p) /\ xml_key(p) \in store
            \/ /\ calls[p].meta = 1
               /\ calls[p].data = Len(out_files[p])
               /\ Len(out_files[p]) >= MinOutputs
               /\ xml_key(p) \in store
               /\ Uploaded(p)

\* the message of an item of which nothing was published is deleted
DeletedAfterCompletionWitness ==
    \E p \in Procs :
        /\ calls[p].delete = 1
        /\ process_failed[p]
        /\ queue[message[p]].state = "deleted"
        /\ ~Published(queue[message[p]].body)
        /\ store = {}

\* the exceptions that download, descriptor parsing, the existence check,
\* conversion and upload raise
FatalErrors ==
    {"download_file", "get_xmlfile", "get_metadata", "check_processed", "cog_translate",
     "put_object"}

\* C9: an exception of download, descriptor parsing, the existence check,
\* conversion or upload leaves process_one; the call has not deleted its
\* message, and once the lease has run out the message is visible again.
FatalLeavesMessage ==
    /\ [](\A p \in Procs :
            error[p] \in FatalErrors =>
                /\ pc[p] = "raised"
                /\ calls[p].delete = 0
                /\ message[p] # None => queue[message[p]].state # "deleted")
    /\ \A p \in Procs :
          (pc[p] = "raised" /\ message[p] # None)
              ~> (message[p] # None /\ queue[message[p]].state = "visible")

\* a call was ended by put_object and its message is visible again
FatalLeavesMessageWitness ==
    \E p \in Procs :
        /\ pc[p] = "raised"
        /\ error[p] = "put_object"
        /\ message[p] # None
        /\ queue[message[p]].state = "visible"

\* the call unpacked its archive and WORKDIR holds no descriptor, or the
\* descriptor it picked lacks a required field
DescriptorFailed(p) ==
    /\ calls[p].untar = 1
    /\ ~process_failed[p]
    /\ calls[p].check = 0
    /\ \/ XmlFiles(WORKDIR[p]) = {}
       \/ xml_file[p] # NoFile /\ ~HasRequiredFields(xml_file[p])

\* C10: a call that finds no descriptor, or one without a required field,
\* ends as a soft failure: nothing published, the message deleted.
DescriptorFailureIsSoft ==
    \A p \in Procs :
        pc[p] \in Ended /\ message[p] # None /\ DescriptorFailed(p) =>
            /\ pc[p] = "returned"
            /\ calls[p].delete = 1
            /\ queue[message[p]].state = "deleted"

\* ------------------------------------------------------------------------
\* C11  All-or-nothing on a transform failure: a call that cog_translate
\*      ended has put nothing into the store, neither an output nor the
\*      descriptor, however many files it had converted before.
\* ------------------------------------------------------------------------
TransformFailed(p) == error[p] = "cog_translate"

TransformFailurePublishesNothing ==
    \A p \in Procs :
        TransformFailed(p) =>
            /\ pc[p] = "raised"
            /\ calls[p].data = 0
            /\ calls[p].meta = 0
            /\ calls[p].gate = 0

\* the conversion failed after some files had been converted
TransformFailurePublishesNothingWitness ==
    \E p \in Procs :
        /\ TransformFailed(p)
        /\ calls[p].transform >= 3
        /\ OUTDIR[p] # {}
        /\ store = {}

\* ------------------------------------------------------------------------
\* C12  Cleanup regardless of outcome: when a call that was asked to clean
\*      up and that obtained a work item has ended, returned or raised, both
\*      staging directories are empty.
\* ------------------------------------------------------------------------
GotWorkItem(p) == file_to_process[p] # "none"

CleanupWhateverTheOutcome ==
    \A p \in Procs :
        (cleanup[p] /\ GotWorkItem(p) /\ pc[p] \in {"returned", "raised"}) =>
            /\ WORKDIR[p] = {}
            /\ OUTDIR[p] = {}

\* ------------------------------------------------------------------------
\* C16  check_processed answers True exactly when the key is in the bucket
\*      and False exactly when it is not (the 404); any other error leaves
\*      it as an exception, and the call it ends has converted nothing,
\*      uploaded nothing and not deleted its message.
\* ------------------------------------------------------------------------
CheckErrored(p) == error[p] = "check_processed"

CheckErrorIsFatal ==
    /\ [][\A p \in Procs :
            (pc[p] = "check" /\ pc'[p] # "check" /\ ~CheckErrored(p)') =>
                processed_already'[p] = (xml_key(p) \in store)]_vars
    /\ [](\A p \in Procs :
            CheckErrored(p) =>
                /\ pc[p] = "raised"
                /\ calls[p].transform = 0
                /\ calls[p].gate = 0
                /\ calls[p].data = 0
                /\ calls[p].meta = 0
                /\ calls[p].delete = 0
                /\ message[p] # None => queue[message[p]].state # "deleted")

\* the lookup failed on a key that is in the bucket, under a leased message
CheckErrorIsFatalWitness ==
    \E p \in Procs :
        /\ CheckErrored(p)
        /\ xml_key(p) \in store
        /\ message[p] # None
        /\ queue[message[p]].state = "inflight"

\* ------------------------------------------------------------------------
\* C17  Acknowledge and cleanup.  As claimed: the message is deleted before
\*      the staging directories are cleared, so a call that has cleared
\*      them has already deleted its message.
\* ------------------------------------------------------------------------
AckPrecedesCleanup ==
    \A p \in Procs :
        (message[p] # None /\ calls[p].clean = 1) => calls[p].delete = 1

\* C17, as the code has it: the directories are cleared first.  A call that
\* was asked to clean up and has deleted its message had cleared both
\* directories before, and no call deletes its message ahead of its cleanup
\* step.
CleanupPrecedesAck ==
    \A p \in Procs :
        /\ (cleanup[p] /\ calls[p].delete = 1) =>
              /\ calls[p].clean = 1
              /\ WORKDIR[p] = {}
              /\ OUTDIR[p] = {}
        /\ pc[p] = "cleanup" => calls[p].delete = 0

\* the directories are cleared and the message is still to be deleted
CleanupPrecedesAckWitness ==
    \E p \in Procs :
        /\ pc[p] = "delete"
        /\ calls[p].clean = 1
        /\ calls[p].delete = 0
        /\ calls[p].meta = 1
        /\ message[p] # None
        /\ queue[message[p]].state = "inflight"

\* ------------------------------------------------------------------------
\* C18  Only a leased message is acknowledged: a call at its deletion step
\*      holds a message received in this call whose body is the item it
\*      processed; a call in test mode does not fail at the deletion step,
\*      and does not end with a message that receive_messages handed to it
\*      still leased, unprocessed and undeleted.
\* ------------------------------------------------------------------------
\* the call received a message and dropped it for the test item
DroppedLease(p) == test[p] /\ calls[p].receive = 1 /\ message[p] = None

AcknowledgesWhatItLeased ==
    \A p \in Procs :
        /\ pc[p] = "delete" =>
              /\ message[p] # None
              /\ queue[message[p]].body = file_to_process[p]
        /\ error[p] # "message.delete"
        /\ (pc[p] \in Ended /\ DroppedLease(p)) =>
              \A m \in Msgs : queue[m].state # "inflight"

\* ------------------------------------------------------------------------
\* C19  Outputs belong to the current item: the descriptor a call uses for
\*      its prefix and every output it converts and uploads come from the
\*      archive of the item the call is working on, whatever earlier calls
\*      left in the staging directories.
\* ------------------------------------------------------------------------
OutputsOfCurrentItem ==
    \A p \in Procs :
        /\ xml_file[p] # NoFile => xml_file[p] = Xml(file_to_process[p])
        /\ \A i \in 1..Len(out_files[p]) : out_files[p][i][2] = file_to_process[p]

\* ------------------------------------------------------------------------
\* C13  Publishing by several instances.  As claimed: with overwrite=false
\*      no item's output set is published more than once, so no two
\*      instances have both uploaded the descriptor of the same item.
\* ------------------------------------------------------------------------
PublishedBy(p) == ~overwrite[p] /\ calls[p].meta = 1 /\ PastPublish(p)

NoDoublePublish ==
    \A p, q \in Procs :
        (p # q /\ PublishedBy(p) /\ PublishedBy(q)) => xml_key(p) # xml_key(q)

\* C13, as the code has it: the existence check and the upload are separate
\* requests.  With overwrite=false a call converts and uploads only if the
\* descriptor key was absent when it checked, and a call that checks once
\* the key is in the bucket skips; calls whose checks both come before
\* either descriptor upload may both publish the item.
PublishesOnlyIfAbsentAtCheck ==
    /\ [](\A p \in Procs :
            (calls[p].transform > 0 \/ calls[p].data > 0 \/ calls[p].meta > 0) =>
                ~processed_already[p])
    /\ [][\A p \in Procs :
            (pc[p] = "check" /\ xml_key(p) \in store /\ pc'[p] \notin {"check", "raised"}) =>
                (pc'[p] = "cleanup" /\ processed_already'[p])]_vars

\* one instance published the item, and another that leased the same
\* message after it had expired found the key and skipped
PublishesOnlyIfAbsentAtCheckWitness ==
    \E p, q \in Procs :
        /\ p # q
        /\ PublishedBy(p)
        /\ Skips(q)
        /\ pc[q] = "returned"
        /\ message[q] = message[p]
        /\ xml_key(q) = xml_key(p)

\* ------------------------------------------------------------------------
\* C15  Marker invariant: whenever the descriptor key of an item is in the
\*      bucket, every data output of that item is in the bucket under the
\*      same prefix, also after calls that failed part-way and with several
\*      instances at work.
\* ------------------------------------------------------------------------
HasMarker(a) ==
    /\ Untars(a)
    /\ HasXml(a)
    /\ HasRequiredFields(Xml(a))
    /\ Key(out_file_path(get_metadata(Xml(a))), Xml(a)) \in store

MarkerImpliesData ==
    /\ \A a \in Archives : HasMarker(a) => Published(a)
    /\ \A p \in Procs : (calls[p].meta = 1 /\ PastPublish(p)) => Uploaded(p)

\* the marker is there while another instance has failed in mid-upload
MarkerImpliesDataWitness ==
    \E a \in Archives, p \in Procs :
        /\ HasMarker(a)
        /\ error[p] = "put_object"
        /\ calls[p].data \in 2..MinOutputs
        /\ calls[p].meta = 0

\* ------------------------------------------------------------------------
\* C14  Queue refill limit: get_items(LIMIT, filter) has, when it returns,
\*      enqueued exactly min(LIMIT, m) messages, m being the number of listed
\*      keys that contain the filter; every body is such a key.
\* ------------------------------------------------------------------------
Matching == {k \in bucket : Contains(k, filter)}

Min(a, b) == IF a <= b THEN a ELSE b

EnqueuesUpToLimit ==
    gi = "done" =>
        /\ Len(sent) = Min(LIMIT, Cardinality(Matching))
        /\ \A i \in 1..Len(sent) : sent[i] \in Matching

\* ------------------------------------------------------------------------
\* C20  Main-loop termination: started on a queue of finitely many messages
\*      to which nothing is added, the loop of __main__ ends unless an
\*      exception leaves process_one; when it has ended every message has
\*      been deleted; and a message is in flight only as the one message of
\*      the call in progress, which deletes it before the next is leased.
\* ------------------------------------------------------------------------
MainLoopDrainsQueue ==
    /\ <>(main[1] = "exit" \/ pc[1] = "raised")
    /\ [](main[1] = "exit" => \A m \in Msgs : queue[m].state = "deleted")
    /\ [](\A m \in Msgs : queue[m].state = "inflight" => message[1] = m)

====
